---------------------------- MODULE Spec2Model ----------------------------
(***************************************************************************)
(* A model of src/newsvendor.py: the class Newsvendor.                     *)
(*                                                                         *)
(* Numbers.  The parameters are Python ints.  A Python/numpy float is a    *)
(* pair <<num, den>>: den > 0 is the rational num/den, and den = 0 is a    *)
(* non-finite double (<<1,0>> = inf, <<-1,0>> = -inf, <<0,0>> = nan).      *)
(* round(x, k) yields a pair with den = 10^k, so 'Fill Rate' <<9876,10000>>*)
(* reads 0.9876.  Arithmetic is exact: binary floating-point error is not  *)
(* modelled.                                                               *)
(*                                                                         *)
(* A method is an operator from (self, arguments, random draws) to a       *)
(* record [self, ret, exc, frame]: the attributes after the call, the      *)
(* value returned, the exception raised ("none" when it returns) and the   *)
(* method's local variables when it ended.                                 *)
(***************************************************************************)
EXTENDS Integers, Sequences, FiniteSets, TLC

VARIABLES
    self,   \* the attributes of the one Newsvendor instance
    ret,    \* what the last call returned (None while a call runs or after it raised)
    exc,    \* the exception the last call raised, "none" if it returned
    op,     \* the last call: its method name and arguments
    pre,    \* the attributes when the last call began
    pc,     \* "idle", or the sweep method whose loop is running
    frame,  \* the local variables of the last call
    same_draws  \* history: every iteration of the running fill rate sweep drew
                \* the same demand as the one before it

vars == <<self, ret, exc, op, pre, pc, frame, same_draws>>

-----------------------------------------------------------------------------
(* Bounds of the model and the sets the inputs are drawn from.             *)

MaxTrials == 2

Demands == {10, 100}
SDs == {0, 20}
Sells == {2, 10, 18}
Costs == {6}
Salvages == {2}
\* a raw normal draw is mu + z * SD / 8
DrawZ == {-12, 1}
Quantities == {-10, 0, 100, 150}
InStockPcts == {<<1, 4>>, <<3, 4>>, <<1, 1>>, <<3, 2>>}
UpperSDBounds == {0, 1, 3}
StepSizes == {0, 50, 80}
ScenarioStepSizes == {10}

-----------------------------------------------------------------------------
(* Arithmetic helpers.                                                     *)

Abs(n) == IF n < 0 THEN 0 - n ELSE n

Sign(n) == IF n < 0 THEN 0 - 1 ELSE IF n > 0 THEN 1 ELSE 0

RECURSIVE GCD(_, _)
GCD(a, b) == IF b = 0 THEN a ELSE GCD(b, a % b)

RECURSIVE Sum(_)
Sum(s) == IF s = <<>> THEN 0 ELSE Head(s) + Sum(Tail(s))

RECURSIVE SeqMax(_)
SeqMax(s) ==
    IF Len(s) = 1 THEN s[1]
    ELSE LET m == SeqMax(Tail(s)) IN IF s[1] > m THEN s[1] ELSE m

RECURSIVE SeqMin(_)
SeqMin(s) ==
    IF Len(s) = 1 THEN s[1]
    ELSE LET m == SeqMin(Tail(s)) IN IF s[1] < m THEN s[1] ELSE m

\* the float n / d of two Python numbers, d # 0, in lowest terms
Frac(n, d) ==
    LET g == GCD(Abs(n), Abs(d))
    IN  <<Sign(d) * (n \div g), Sign(d) * (d \div g)>>

\* numpy's x / 0 for a double x: inf, -inf or nan (a RuntimeWarning, no exception)
NonFinite(n) == <<Sign(n), 0>>

IsFinite(x) == x[2] # 0

\* n / d rounded to the nearest integer, ties to the even one (d > 0)
RoundHalfEven(n, d) ==
    LET q == n \div d
        r == n - q * d
    IN  IF 2 * r < d THEN q
        ELSE IF 2 * r > d THEN q + 1
        ELSE IF q % 2 = 0 THEN q ELSE q + 1

\* round(x, k) of a float x, scale = 10^k: a float again, non-finite stays so
RoundTo(x, scale) ==
    IF ~IsFinite(x) THEN x
    ELSE <<RoundHalfEven(x[1] * scale, x[2]), scale>>

\* np.mean(a) / m for an integer-valued array a and a Python int m
MeanOver(a, m) ==
    IF m = 0 THEN NonFinite(Sum(a))
    ELSE <<Sign(m) * Sum(a), Len(a) * Abs(m)>>

None == [kind |-> "None"]

NoFrame == [kind |-> "none"]

Result(s, r, e, f) == [self |-> s, ret |-> r, exc |-> e, frame |-> f]

-----------------------------------------------------------------------------
(* The Parameter Store.                                                    *)

\* the five base values, the three derived ones, and the attribute
\* `salvage` that only clearParameters creates: <<>> while the instance has
\* no such attribute, <<v>> once it has
Attrs(mu, SD, sell, cost, salvageprice, salvage, Cu, Co, criticalRatio) ==
    [mu |-> mu, SD |-> SD, sellprice |-> sell, cost |-> cost,
     salvageprice |-> salvageprice, salvage |-> salvage,
     _Cu |-> Cu, _Co |-> Co, _criticalRatio |-> criticalRatio]

\* Newsvendor(demand, SD, sell, cost, salvage): the division of line 15
\* raises ZeroDivisionError and no instance comes to exist
__init__(demand, SD, sell, cost, salvage) ==
    LET Cu == sell - cost
        Co == cost - salvage
    IN  IF Cu + Co = 0
        THEN Result(None, None, "ZeroDivisionError", NoFrame)
        ELSE Result(Attrs(demand, SD, sell, cost, salvage, <<>>,
                          Cu, Co, Frac(Cu, Cu + Co)),
                    None, "none", NoFrame)

clearParameters(s) ==
    Result([s EXCEPT !.mu = 0, !.SD = 0, !.sellprice = 0, !.cost = 0,
                     !.salvage = <<0>>, !._Cu = 0, !._Co = 0,
                     !._criticalRatio = <<0, 1>>],
           None, "none", NoFrame)

\* a variant for C3: the critical ratio is not recomputed
setParameters_stale_ratio(s, demand, SD, sell, cost, salvage) ==
    LET Cu == sell - cost
        Co == cost - salvage
        s1 == [s EXCEPT !.mu = demand, !.SD = SD, !.sellprice = sell,
                        !.cost = cost, !.salvageprice = salvage,
                        !._Cu = Cu, !._Co = Co]
    IN  IF Cu + Co = 0
        THEN Result(s1, None, "ZeroDivisionError", NoFrame)
        ELSE Result(s1, None, "none", NoFrame)

\* the assignments of lines 29-35 have happened when line 36 divides
setParameters(s, demand, SD, sell, cost, salvage) ==
    LET Cu == sell - cost
        Co == cost - salvage
        s1 == [s EXCEPT !.mu = demand, !.SD = SD, !.sellprice = sell,
                        !.cost = cost, !.salvageprice = salvage,
                        !._Cu = Cu, !._Co = Co]
    IN  IF Cu + Co = 0
        THEN Result(s1, None, "ZeroDivisionError", NoFrame)
        ELSE Result([s1 EXCEPT !._criticalRatio = Frac(Cu, Cu + Co)],
                    None, "none", NoFrame)

showParameters(s) ==
    Result(s,
           [kind |-> "dict", Demand |-> s.mu, StandardDeviation |-> s.SD,
            SellingPrice |-> s.sellprice, Cost |-> s.cost,
            SalvageValue |-> s.salvageprice],
           "none", NoFrame)

-----------------------------------------------------------------------------
(* The Analytical Solver.                                                  *)

\* the standard normal quantile of the probabilities the model meets, in
\* units of 1/10000
StandardQuantile ==
    (<<1, 4>> :> (0 - 6745)) @@ (<<1, 2>> :> 0) @@ (<<3, 4>> :> 6745)

\* norm(mu, SD).ppf(q): nan unless SD > 0 and 0 <= q <= 1, -inf at 0, inf at 1
ppf(mu, SD, q) ==
    IF SD <= 0 \/ ~IsFinite(q) \/ q[1] < 0 \/ q[1] > q[2] THEN <<0, 0>>
    ELSE IF q[1] = 0 THEN <<0 - 1, 0>>
    ELSE IF q[1] = q[2] THEN <<1, 0>>
    ELSE <<mu * 10000 + SD * StandardQuantile[q], 10000>>

\* round(x) of a float: a Python int, or the exception int conversion raises
PyRound(x) ==
    IF x = <<0, 0>> THEN [exc |-> "ValueError", val |-> 0]
    ELSE IF ~IsFinite(x) THEN [exc |-> "OverflowError", val |-> 0]
    ELSE [exc |-> "none", val |-> RoundHalfEven(x[1], x[2])]

\* round(norm.sf(z), 4): the survival function is left uninterpreted
norm_sf(z) == [fn |-> "norm.sf", at |-> z]

optimalQuantity(s) ==
    LET optimal_production == PyRound(ppf(s.mu, s.SD, s._criticalRatio))
        safety_stock == optimal_production.val - s.mu
    IN  IF optimal_production.exc # "none"
        THEN Result(s, None, optimal_production.exc, NoFrame)
        ELSE Result(s,
                    [kind |-> "dict",
                     OptimalQuantity |-> optimal_production.val,
                     AverageDemand |-> s.mu,
                     SafetyStock |-> safety_stock],
                    "none", NoFrame)

-----------------------------------------------------------------------------
(* The Monte Carlo Evaluator.                                              *)

\* the default of the parameter `simulations`
Simulations == 1

\* what np.random.normal(mu, SD, (simulations, trials)) can give, flattened
normal(mu, SD, simulations, trials) ==
    [1..(simulations * trials) -> {<<8 * mu + z * SD, 8>> : z \in DrawZ}]

np_round(raw) == [i \in 1..Len(raw) |-> RoundHalfEven(raw[i][1], raw[i][2])]

salvage_quantity(production, demand) ==
    [i \in 1..Len(demand) |->
        IF production - demand[i] < 0 THEN 0 ELSE production - demand[i]]

\* a variant for C10: the lost sales are not clipped at 0
lost_sales_unclipped(production, demand) ==
    [i \in 1..Len(demand) |-> demand[i] - production]

lost_sales_quantity(production, demand) ==
    [i \in 1..Len(demand) |->
        IF demand[i] - production < 0 THEN 0 ELSE demand[i] - production]

\* a variant for C6: np.maximum in place of np.minimum
units_sold_maximum(production, demand) ==
    [i \in 1..Len(demand) |->
        IF demand[i] > production THEN demand[i] ELSE production]

\* a variant for C7: the lost sales taken for the units sold
units_sold_lost(production, demand) ==
    [i \in 1..Len(demand) |->
        IF demand[i] - production < 0 THEN 0 ELSE demand[i] - production]

units_sold(production, demand) ==
    [i \in 1..Len(demand) |->
        IF demand[i] < production THEN demand[i] ELSE production]

GP(s, production, demand) ==
    LET salvage_revenue ==
            [i \in 1..Len(demand) |->
                salvage_quantity(production, demand)[i] * s.salvageprice]
        unit_revenue ==
            [i \in 1..Len(demand) |->
                units_sold(production, demand)[i] * s.sellprice]
        TR == [i \in 1..Len(demand) |-> unit_revenue[i] + salvage_revenue[i]]
        COGS == production * s.cost
    IN  [i \in 1..Len(demand) |-> TR[i] - COGS]

\* the local arrays of one evaluation at `production`
Locals(s, production, demand) ==
    [kind |-> "locals", production |-> production, demand |-> demand,
     salvage_quantity |-> salvage_quantity(production, demand),
     lost_sales_quantity |-> lost_sales_quantity(production, demand),
     units_sold |-> units_sold(production, demand),
     GP |-> GP(s, production, demand)]

\* round(np.mean(units_sold) / self.mu, 4)
FillRate(s, sold) == RoundTo(MeanOver(sold, s.mu), 10000)

\* the entries the three summaries share; f is Locals(...)
dict_summ(s, f) ==
    [kind |-> "dict",
     OrderQuantity |-> f.production,
     ExpectedProfit |-> RoundTo(MeanOver(f.GP, 1), 100),
     ExpectedSalesQuantity |-> RoundTo(MeanOver(f.units_sold, 1), 1),
     ExpectedLostSalesQuantity |-> RoundTo(MeanOver(f.lost_sales_quantity, 1), 1),
     ExpectedLeftoverQuantity |-> RoundTo(MeanOver(f.salvage_quantity, 1), 1),
     FillRate |-> FillRate(s, f.units_sold),
     StockoutProbability |-> norm_sf(Frac(f.production - s.mu, s.SD))]

\* lines 56-88 and their twins: the draws, the arrays, the dictionary
Summary(s, production, raw) ==
    LET f == Locals(s, production, np_round(raw))
    IN  IF s.SD < 0 THEN Result(s, None, "ValueError", NoFrame)
        ELSE IF s.SD = 0 THEN Result(s, None, "ZeroDivisionError", f)
        ELSE Result(s, dict_summ(s, f), "none", f)

optimalSummary(s, raw) ==
    LET production == PyRound(ppf(s.mu, s.SD, s._criticalRatio))
    IN  IF production.exc # "none"
        THEN Result(s, None, production.exc, NoFrame)
        ELSE Summary(s, production.val, raw)

targetInStockProba(s, instock_pct, raw) ==
    LET production == PyRound(ppf(s.mu, s.SD, instock_pct))
        r == Summary(s, production.val, raw)
    IN  IF production.exc # "none"
        THEN Result(s, None, production.exc, NoFrame)
        ELSE IF r.exc # "none" THEN r
        ELSE [r EXCEPT !.ret =
                [kind |-> "dict",
                 ChosenInStockProbability |-> instock_pct,
                 OrderQuantity |-> r.ret.OrderQuantity,
                 ExpectedProfit |-> r.ret.ExpectedProfit,
                 ExpectedSalesQuantity |-> r.ret.ExpectedSalesQuantity,
                 ExpectedLostSalesQuantity |-> r.ret.ExpectedLostSalesQuantity,
                 ExpectedLeftoverQuantity |-> r.ret.ExpectedLeftoverQuantity,
                 FillRate |-> r.ret.FillRate,
                 StockoutProbability |-> r.ret.StockoutProbability]]

\* a variant for C5: the evaluation keeps its quantity in the instance
quantityPerformanceSummary_stores(s, quantity, raw) ==
    LET r == Summary(s, quantity, raw)
    IN  [r EXCEPT !.self.mu = quantity]

quantityPerformanceSummary(s, quantity, raw) ==
    Summary(s, quantity, raw)

-----------------------------------------------------------------------------
(* The Quantity Sweep Evaluator.  A sweep is a loop over the candidate     *)
(* quantities; the model takes one step for the lines before the loop, one *)
(* per iteration and one for the lines after it.  frame.i counts the       *)
(* iterations done.                                                        *)

\* list(range(start, stop, step)) for step # 0
RECURSIVE range(_, _, _)
range(start, stop, step) ==
    IF (step > 0 /\ start >= stop) \/ (step < 0 /\ start <= stop) THEN <<>>
    ELSE <<start>> \o range(start + step, stop, step)

\* np.zeros(n)
np_zeros(n) == [i \in 1..n |-> <<0, 1>>]

\* a variant for C8: the upper bound is included
fillRateSummary_begin_inclusive(s, upper_SD_bound, steps, trials) ==
    LET upper_production_bound == s.mu + (upper_SD_bound * s.SD)
        unit_production_range == range(0, upper_production_bound + 1, steps)
    IN  IF steps = 0 THEN Result(s, None, "ValueError", NoFrame)
        ELSE Result(s, None, "none",
                    [kind |-> "fillRateSummary",
                     trials |-> trials,
                     upper_production_bound |-> upper_production_bound,
                     unit_production_range |-> unit_production_range,
                     fill_rate_array |-> np_zeros(Len(unit_production_range)),
                     i |-> 0,
                     demand |-> <<>>])

\* a variant for C9: the candidates start at the step, not at 0
fillRateSummary_begin_from_step(s, upper_SD_bound, steps, trials) ==
    LET upper_production_bound == s.mu + (upper_SD_bound * s.SD)
        unit_production_range == range(steps, upper_production_bound, steps)
    IN  IF steps = 0 THEN Result(s, None, "ValueError", NoFrame)
        ELSE Result(s, None, "none",
                    [kind |-> "fillRateSummary",
                     trials |-> trials,
                     upper_production_bound |-> upper_production_bound,
                     unit_production_range |-> unit_production_range,
                     fill_rate_array |-> np_zeros(Len(unit_production_range)),
                     i |-> 0,
                     demand |-> <<>>])

\* lines 176-180; range() raises ValueError for a step of 0
fillRateSummary_begin(s, upper_SD_bound, steps, trials) ==
    LET upper_production_bound == s.mu + (upper_SD_bound * s.SD)
        unit_production_range == range(0, upper_production_bound, steps)
    IN  IF steps = 0 THEN Result(s, None, "ValueError", NoFrame)
        ELSE Result(s, None, "none",
                    [kind |-> "fillRateSummary",
                     trials |-> trials,
                     upper_production_bound |-> upper_production_bound,
                     unit_production_range |-> unit_production_range,
                     fill_rate_array |-> np_zeros(Len(unit_production_range)),
                     i |-> 0,
                     demand |-> <<>>])

\* lines 182-189: one iteration, on its own draws
fillRateSummary_step(s, f, raw) ==
    LET production == f.unit_production_range[f.i + 1]
        demand == np_round(raw)
    IN  IF s.SD < 0 THEN Result(s, None, "ValueError", f)
        ELSE Result(s, None, "none",
                    [f EXCEPT !.fill_rate_array[f.i + 1] =
                                  FillRate(s, units_sold(production, demand)),
                              !.demand = demand,
                              !.i = f.i + 1])

\* lines 192-212, showGraph = False
fillRateSummary_return(s, f) ==
    Result(s,
           [kind |-> "DataFrame",
            index |-> f.unit_production_range,
            FillRate |-> f.fill_rate_array],
           "none", f)

\* lines 215-224
quantityScreen_begin(s, upper_SD_bound, steps, trials) ==
    LET upper_production_bound == s.mu + (upper_SD_bound * s.SD)
        unit_production_range == range(0, upper_production_bound, steps)
        zeros == np_zeros(Len(unit_production_range))
    IN  IF steps = 0 THEN Result(s, None, "ValueError", NoFrame)
        ELSE Result(s, None, "none",
                    [kind |-> "quantityScreen",
                     trials |-> trials,
                     upper_production_bound |-> upper_production_bound,
                     unit_production_range |-> unit_production_range,
                     avg_profit_list |-> zeros,
                     max_profit_list |-> zeros,
                     min_profit_list |-> zeros,
                     avg_units_sold |-> zeros,
                     avg_lost_sales |-> zeros,
                     avg_leftover_units |-> zeros,
                     i |-> 0,
                     locals |-> NoFrame])

\* lines 226-260: one iteration, on its own draws
quantityScreen_step(s, f, raw) ==
    LET production == f.unit_production_range[f.i + 1]
        l == Locals(s, production, np_round(raw))
    IN  IF s.SD < 0 THEN Result(s, None, "ValueError", f)
        ELSE Result(s, None, "none",
                [f EXCEPT
                    !.avg_profit_list[f.i + 1] = RoundTo(MeanOver(l.GP, 1), 100),
                    !.max_profit_list[f.i + 1] = RoundTo(<<SeqMax(l.GP), 1>>, 100),
                    !.min_profit_list[f.i + 1] = RoundTo(<<SeqMin(l.GP), 1>>, 100),
                    !.avg_units_sold[f.i + 1] =
                        RoundTo(MeanOver(l.units_sold, 1), 1),
                    !.avg_lost_sales[f.i + 1] =
                        RoundTo(MeanOver(l.lost_sales_quantity, 1), 1),
                    !.avg_leftover_units[f.i + 1] =
                        RoundTo(MeanOver(l.salvage_quantity, 1), 1),
                    !.locals = l,
                    !.i = f.i + 1])

\* lines 262-272
quantityScreen_return(s, f) ==
    Result(s,
           [kind |-> "DataFrame",
            index |-> f.unit_production_range,
            AvgProfit |-> f.avg_profit_list,
            MaxProfit |-> f.max_profit_list,
            MinProfit |-> f.min_profit_list,
            AvgUnitsSold |-> f.avg_units_sold,
            AvgLostSales |-> f.avg_lost_sales,
            AvgLeftoverUnits |-> f.avg_leftover_units],
           "none", f)

-----------------------------------------------------------------------------
(* Calls.                                                                  *)

Call(name, args) == [name |-> name, args |-> args]

\* a call that runs to its end in one step
Finish(name, args, r) ==
    /\ pc = "idle"
    /\ self' = r.self
    /\ ret' = r.ret
    /\ exc' = r.exc
    /\ frame' = r.frame
    /\ op' = Call(name, args)
    /\ pre' = self
    /\ pc' = "idle"
    /\ same_draws' = TRUE

Reset == Finish("clearParameters", <<>>, clearParameters(self))

Update ==
    \E demand \in Demands, SD \in SDs, sell \in Sells, cost \in Costs,
       salvage \in Salvages :
        Finish("setParameters", <<demand, SD, sell, cost, salvage>>,
               setParameters(self, demand, SD, sell, cost, salvage))

Describe == Finish("showParameters", <<>>, showParameters(self))

Init ==
    \E demand \in Demands, SD \in SDs, sell \in Sells, cost \in Costs,
       salvage \in Salvages :
        LET r == __init__(demand, SD, sell, cost, salvage)
        IN  /\ r.exc = "none"
            /\ self = r.self
            /\ ret = None
            /\ exc = "none"
            /\ frame = NoFrame
            /\ op = Call("__init__", <<demand, SD, sell, cost, salvage>>)
            /\ pre = r.self
            /\ pc = "idle"
            /\ same_draws = TRUE

OptimalQuantity == Finish("optimalQuantity", <<>>, optimalQuantity(self))

EvaluateAtOptimalQuantity ==
    \E trials \in 1..MaxTrials :
        \E raw \in normal(self.mu, self.SD, Simulations, trials) :
            Finish("optimalSummary", <<Simulations, trials>>,
                   optimalSummary(self, raw))

EvaluateAtServiceLevel ==
    \E instock_pct \in InStockPcts, trials \in 1..MaxTrials :
        \E raw \in normal(self.mu, self.SD, Simulations, trials) :
            Finish("targetInStockProba", <<instock_pct, Simulations, trials>>,
                   targetInStockProba(self, instock_pct, raw))

EvaluateAtQuantity ==
    \E quantity \in Quantities, trials \in 1..MaxTrials :
        \E raw \in normal(self.mu, self.SD, Simulations, trials) :
            Finish("quantityPerformanceSummary", <<quantity, Simulations, trials>>,
                   quantityPerformanceSummary(self, quantity, raw))

\* a sweep runs the lines before its loop
Begin(name, args, r) ==
    /\ pc = "idle"
    /\ self' = r.self
    /\ ret' = None
    /\ exc' = r.exc
    /\ frame' = r.frame
    /\ op' = Call(name, args)
    /\ pre' = self
    /\ pc' = IF r.exc = "none" THEN name ELSE "idle"
    /\ same_draws' = TRUE

\* one iteration of the running sweep's loop
Iterate(r) ==
    /\ self' = r.self
    /\ exc' = r.exc
    /\ frame' = r.frame
    /\ pc' = IF r.exc = "none" THEN pc ELSE "idle"
    /\ UNCHANGED <<ret, op, pre>>

\* the loop is over: the lines after it, and the return
Return(r) ==
    /\ self' = r.self
    /\ ret' = r.ret
    /\ exc' = r.exc
    /\ frame' = r.frame
    /\ pc' = "idle"
    /\ UNCHANGED <<op, pre, same_draws>>

FillRateCurveCall(steps_set) ==
    \E upper_SD_bound \in UpperSDBounds, steps \in steps_set,
       trials \in 1..MaxTrials :
        Begin("fillRateSummary", <<upper_SD_bound, steps, Simulations, trials>>,
              fillRateSummary_begin(self, upper_SD_bound, steps, trials))

FillRateCurveStep ==
    /\ pc = "fillRateSummary"
    /\ frame.i < Len(frame.unit_production_range)
    /\ \E raw \in normal(self.mu, self.SD, Simulations, frame.trials) :
        /\ Iterate(fillRateSummary_step(self, frame, raw))
        /\ same_draws' = (same_draws /\ (frame.i = 0 \/ np_round(raw) = frame.demand))

FillRateCurveReturn ==
    /\ pc = "fillRateSummary"
    /\ frame.i = Len(frame.unit_production_range)
    /\ Return(fillRateSummary_return(self, frame))

ProfitProfileCall ==
    \E upper_SD_bound \in UpperSDBounds, steps \in StepSizes,
       trials \in 1..MaxTrials :
        Begin("quantityScreen", <<upper_SD_bound, steps, Simulations, trials>>,
              quantityScreen_begin(self, upper_SD_bound, steps, trials))

ProfitProfileStep ==
    /\ pc = "quantityScreen"
    /\ frame.i < Len(frame.unit_production_range)
    /\ \E raw \in normal(self.mu, self.SD, Simulations, frame.trials) :
        /\ Iterate(quantityScreen_step(self, frame, raw))
        /\ UNCHANGED same_draws

ProfitProfileReturn ==
    /\ pc = "quantityScreen"
    /\ frame.i = Len(frame.unit_production_range)
    /\ Return(quantityScreen_return(self, frame))

FillRateCurve ==
    \/ FillRateCurveCall(StepSizes)
    \/ FillRateCurveStep
    \/ FillRateCurveReturn

ProfitProfile ==
    \/ ProfitProfileCall
    \/ ProfitProfileStep
    \/ ProfitProfileReturn

Next ==
    \/ Reset
    \/ Update
    \/ Describe
    \/ OptimalQuantity
    \/ EvaluateAtOptimalQuantity
    \/ EvaluateAtServiceLevel
    \/ EvaluateAtQuantity
    \/ FillRateCurve
    \/ ProfitProfile

Spec == Init /\ [][Next]_vars

\* the sweep scenario of the specification: one model, its fill rate curves
\* in steps of 10
ScenarioInit ==
    LET r == __init__(100, 20, 10, 6, 2)
    IN  /\ self = r.self
        /\ ret = None
        /\ exc = "none"
        /\ frame = NoFrame
        /\ op = Call("__init__", <<100, 20, 10, 6, 2>>)
        /\ pre = r.self
        /\ pc = "idle"
        /\ same_draws = TRUE

ScenarioNext ==
    \/ FillRateCurveCall(ScenarioStepSizes)
    \/ FillRateCurveStep
    \/ FillRateCurveReturn

SpecScenario == ScenarioInit /\ [][ScenarioNext]_vars

\* the Parameter Store alone: Construct, then Reset and Updates that succeed
UpdateOk == Update /\ exc' = "none"

StoreNext ==
    \/ Reset
    \/ UpdateOk

SpecStore == Init /\ [][StoreNext]_vars

-----------------------------------------------------------------------------
(* The claims.                                                             *)

EvaluationNames ==
    {"showParameters", "optimalQuantity", "optimalSummary", "targetInStockProba",
     "quantityPerformanceSummary", "fillRateSummary", "quantityScreen"}

\* a finite float within [0, 1]
InUnitInterval(x) == IsFinite(x) /\ 0 <= x[1] /\ x[1] <= x[2]

\* x <= y for floats; False when either is not finite
FloatLeq(x, y) == IsFinite(x) /\ IsFinite(y) /\ x[1] * y[2] <= y[1] * x[2]

\* a sweep has returned its table
TableReturned(name) ==
    op.name = name /\ pc = "idle" /\ exc = "none" /\ ret.kind = "DataFrame"

\* C1: after Reset every base and derived parameter is 0, salvageprice (the
\* salvage value the calculations read) included.
C1_ResetZeroesAll ==
    op.name = "clearParameters" =>
        /\ self.mu = 0
        /\ self.SD = 0
        /\ self.sellprice = 0
        /\ self.cost = 0
        /\ self.salvageprice = 0
        /\ self._Cu = 0
        /\ self._Co = 0
        /\ self._criticalRatio[1] = 0

\* C2: after Construct and any Resets and successful Updates the derived
\* values agree with the base values: Cu = sell - cost, Co = cost - salvage
\* and criticalRatio * (Cu + Co) = Cu.
C2_DerivedAgreeWithBase ==
    /\ self._Cu = self.sellprice - self.cost
    /\ self._Co = self.cost - self.salvageprice
    /\ self._criticalRatio[1] * (self._Cu + self._Co)
           = self._Cu * self._criticalRatio[2]

\* C3: a successful Update(m, s, p, c, v) leaves the five base and three
\* derived parameters those of Construct(m, s, p, c, v), whatever preceded.
C3_UpdateLikeConstruct ==
    (op.name = "setParameters" /\ exc = "none") =>
        LET c == __init__(op.args[1], op.args[2], op.args[3], op.args[4],
                          op.args[5])
        IN  /\ c.exc = "none"
            /\ \A a \in {"mu", "SD", "sellprice", "cost", "salvageprice",
                         "_Cu", "_Co", "_criticalRatio"} :
                    self[a] = c.self[a]

\* C3 witness: an Update succeeded on a model that was Reset before and whose
\* parameters it changed.
C3_Witness ==
    /\ op.name = "setParameters"
    /\ exc = "none"
    /\ self.salvage = <<0>>
    /\ pre.mu = 0
    /\ self._criticalRatio = <<3, 4>>

\* C4: an Update whose arguments give Cu + Co = 0 raises, and the store then
\* holds exactly what it held before the call.
C4_FailedUpdateLeavesStore ==
    (op.name = "setParameters" /\ op.args[3] = op.args[5]) =>
        /\ exc # "none"
        /\ self = pre

\* C5: no evaluation changes the Parameter Store, whether it returns or
\* raises (and at no point of a sweep's loop).
C5_EvaluationsKeepStore ==
    op.name \in EvaluationNames => self = pre

\* C5 witness: an evaluation raised on a model whose parameters are not the
\* ones it was constructed with.
C5_Witness ==
    /\ op.name = "quantityPerformanceSummary"
    /\ exc = "ZeroDivisionError"
    /\ self.salvage = <<0>>
    /\ self = pre

\* C6: for Q >= 0 and whatever the draws, the fill rate EvaluateAtQuantity(Q)
\* computes lies in [0, 1].
C6_FillRateInUnitInterval ==
    (op.name = "quantityPerformanceSummary" /\ exc = "none" /\ op.args[1] >= 0) =>
        InUnitInterval(ret.FillRate)

\* C6 amended: for Q >= 0, meanDemand > 0 and draws that are all >= 0 and
\* whose mean is at most meanDemand, the fill rate lies in [0, 1].
C6_FillRateInUnitIntervalAmended ==
    (/\ op.name = "quantityPerformanceSummary"
     /\ exc = "none"
     /\ op.args[1] >= 0
     /\ self.mu > 0
     /\ \A i \in 1..Len(frame.demand) : frame.demand[i] >= 0
     /\ Sum(frame.demand) <= Len(frame.demand) * self.mu) =>
        InUnitInterval(ret.FillRate)

\* C6 witness: such an evaluation, with two draws of which one is below Q and
\* one above, and a fill rate strictly inside (0, 1).
C6_Witness ==
    /\ op.name = "quantityPerformanceSummary"
    /\ exc = "none"
    /\ op.args[1] > 0
    /\ self.mu > 0
    /\ Len(frame.demand) = 2
    /\ \A i \in 1..Len(frame.demand) : frame.demand[i] >= 0
    /\ Sum(frame.demand) <= Len(frame.demand) * self.mu
    /\ \E i, j \in 1..Len(frame.demand) :
            frame.demand[i] < op.args[1] /\ frame.demand[j] > op.args[1]
    /\ ret.FillRate[1] > 0
    /\ ret.FillRate[1] < ret.FillRate[2]

\* C7: in the table FillRateCurve returns, the fill rate of a smaller
\* candidate is <= that of a larger one, each evaluated on its own draws.
C7_SweepMonotone ==
    TableReturned("fillRateSummary") =>
        \A i, j \in 1..Len(ret.index) :
            ret.index[i] < ret.index[j] =>
                FloatLeq(ret.FillRate[i], ret.FillRate[j])

\* C7 amended: the same, when meanDemand > 0 and every candidate of the sweep
\* was evaluated on the same demand draws.
C7_SweepMonotoneAmended ==
    (TableReturned("fillRateSummary") /\ same_draws /\ self.mu > 0) =>
        \A i, j \in 1..Len(ret.index) :
            ret.index[i] < ret.index[j] =>
                FloatLeq(ret.FillRate[i], ret.FillRate[j])

\* C7 witness: a table of at least three candidates, all evaluated on the
\* same two unequal draws, whose fill rate rises.
C7_Witness ==
    /\ TableReturned("fillRateSummary")
    /\ same_draws
    /\ self.mu > 0
    /\ Len(ret.index) >= 3
    /\ Len(frame.demand) = 2
    /\ frame.demand[1] # frame.demand[2]
    /\ ret.FillRate[1] # ret.FillRate[2]
    /\ ret.FillRate[2] # ret.FillRate[3]

\* idx is the ascending sequence of the multiples of step in [0, bound)
MultiplesBelow(idx, bound, step) ==
    /\ \A k \in 1..Len(idx) :
            idx[k] % step = 0 /\ 0 <= idx[k] /\ idx[k] < bound
    /\ \A k \in 1..(Len(idx) - 1) : idx[k] < idx[k + 1]
    /\ \A q \in 0..(bound - 1) :
            q % step = 0 => \E k \in 1..Len(idx) : idx[k] = q

\* C8: for integer meanDemand, demandStdDev, upperStdDevBound >= 0 and
\* stepSize >= 1 the row keys of FillRateCurve and of ProfitProfile are the
\* multiples of stepSize in [0, meanDemand + upperStdDevBound * demandStdDev),
\* once each, ascending; both give the same keys for the same parameters.
C8_SweepKeys ==
    /\ TableReturned("fillRateSummary") =>
        /\ MultiplesBelow(ret.index, self.mu + op.args[1] * self.SD, op.args[2])
        /\ ret.index =
             quantityScreen_begin(self, op.args[1], op.args[2], op.args[4])
                .frame.unit_production_range
    /\ TableReturned("quantityScreen") =>
        /\ MultiplesBelow(ret.index, self.mu + op.args[1] * self.SD, op.args[2])
        /\ ret.index =
             fillRateSummary_begin(self, op.args[1], op.args[2], op.args[4])
                .frame.unit_production_range

\* C8 witness: a table whose upper bound is itself a multiple of the step, so
\* that excluding it matters.
C8_Witness ==
    /\ TableReturned("quantityScreen")
    /\ self.mu + op.args[1] * self.SD = 2 * op.args[2]
    /\ Len(ret.index) = 2

\* the sweep scenario's call has returned
ScenarioReturned ==
    /\ TableReturned("fillRateSummary")
    /\ self.mu = 100 /\ self.SD = 20
    /\ op.args[1] = 3 /\ op.args[2] = 10

\* C9: with meanDemand = 100, demandStdDev = 20, FillRateCurve(3, 10) returns
\* quantities from 0 to 160 in steps of 10.
C9_KeysZeroTo160 ==
    ScenarioReturned =>
        /\ Len(ret.index) >= 1
        /\ ret.index[1] = 0
        /\ ret.index[Len(ret.index)] = 160
        /\ \A k \in 1..(Len(ret.index) - 1) : ret.index[k + 1] = ret.index[k] + 10

\* C9 amended: the quantities run from 0 to 150 in steps of 10 (160, the upper
\* bound, is excluded).
C9_KeysZeroTo150 ==
    ScenarioReturned =>
        /\ Len(ret.index) = 16
        /\ ret.index[1] = 0
        /\ ret.index[Len(ret.index)] = 150
        /\ \A k \in 1..(Len(ret.index) - 1) : ret.index[k + 1] = ret.index[k] + 10

\* C9 witness: the scenario's table, returned with a fill rate for each key.
C9_Witness ==
    /\ ScenarioReturned
    /\ Len(ret.FillRate) = Len(ret.index)
    /\ ret.FillRate[1] = <<0, 10000>>

\* the per-trial identities of one evaluation's local arrays
TrialIdentities(l) ==
    \A i \in 1..Len(l.demand) :
        LET d == l.demand[i]
            Q == l.production
            leftover == l.salvage_quantity[i]
            lostSales == l.lost_sales_quantity[i]
            unitsSold == l.units_sold[i]
        IN  /\ leftover >= 0
            /\ lostSales >= 0
            /\ ~(leftover > 0 /\ lostSales > 0)
            /\ unitsSold + lostSales = d
            /\ unitsSold + leftover = Q
            /\ l.GP[i] = unitsSold * self.sellprice
                           + leftover * self.salvageprice - Q * self.cost

\* C10: in every Monte Carlo evaluation each trial has leftover and lostSales
\* >= 0 and never both positive, unitsSold + lostSales = d, unitsSold +
\* leftover = Q and grossProfit = unitsSold * sellingPrice + leftover *
\* salvageValue - Q * unitCost.
C10_TrialIdentities ==
    /\ frame.kind = "locals" => TrialIdentities(frame)
    /\ (frame.kind = "quantityScreen" /\ frame.i > 0) =>
            TrialIdentities(frame.locals)

\* C10 witness: an iteration of ProfitProfile with one trial that left units
\* over and one that lost sales.
C10_Witness ==
    /\ frame.kind = "quantityScreen"
    /\ frame.i > 0
    /\ \E i, j \in 1..Len(frame.locals.demand) :
            /\ frame.locals.salvage_quantity[i] > 0
            /\ frame.locals.lost_sales_quantity[j] > 0

=============================================================================
